---- MODULE Spec2Model ----
(***************************************************************************)
(* Model of the tax computation core of newtax.py: the progressive         *)
(* bracket engine, the PIT and CIT calculators and the /calculate route    *)
(* that compares the OLD and NEW regimes.                                   *)
(*                                                                         *)
(* Representation.  Money is an integer number of naira.  A rate is an     *)
(* integer number of percent, and "x * rate" is (x * pct) \div 100.  Every *)
(* amount the model multiplies by a rate is a multiple of 100 (inputs are  *)
(* drawn from grids of multiples of 100,000), so the division is exact:    *)
(* the model is exact rational arithmetic, and the rounding of the         *)
(* program's binary floating point is not modelled.  A quotient by 12 is   *)
(* kept as the fraction [num, den].                                        *)
(***************************************************************************)
EXTENDS Integers, Sequences, FiniteSets, TLC

VARIABLES
    amount,     \* calculate_progressive_tax: argument `amount`
    brackets,   \* calculate_progressive_tax: argument `brackets`
    tax,        \* calculate_progressive_tax: the value returned
    returned,   \* whether the call on (amount, brackets) has returned
    pos,        \* calculate_progressive_tax: entries of `brackets` the for
                \* loop has taken so far
    prev,       \* calculate_progressive_tax: the local `prev`
    globals,    \* the module-level names the calculators read
    threads,    \* the server's request threads
    frame,      \* the view function followed statement by statement: its
                \* position and its locals
    request,    \* the JSON body of the POST /calculate in flight
    response    \* what the route answered to `request`

vars == <<amount, brackets, tax, returned, pos, prev, globals, threads,
          frame, request, response>>
engineVars == <<amount, brackets, tax, returned, pos, prev>>
routeVars == <<request, response>>
serverVars == <<globals, threads, frame>>

(***************************************************************************)
(* Bounds of the model.                                                    *)
(***************************************************************************)
MaxAmount == 225     \* bracket engine: amounts 0, 100000, .. MaxAmount * 100000
MaxBasic == 2        \* basic salary: 0 .. MaxBasic * 1,000,000
MaxHousing == 2      \* housing allowance: 0 .. MaxHousing * 300,000
MaxTransport == 1    \* transport allowance: 0 .. MaxTransport * 400,000
MaxOthers == 3       \* other allowances: 0 .. MaxOthers * 10,000,000
MaxDeduction == 1    \* pension 0 .. MaxDeduction * 2,000,000; NHF and life
                     \* insurance 0 .. MaxDeduction * 100,000
MaxGains == 1        \* capital gains 0 .. MaxGains * 1,000,000; digital
                     \* assets 0 .. MaxGains * 500,000
MaxTurnover == 31    \* turnover: k * 5,000,000 and k * 5,000,000 + 1, k up to it
MaxProfit == 3       \* profit: -5,000,000 .. (MaxProfit - 1) * 5,000,000
MaxSpecial == 2
MaxThreads == 2        \* requests the server handles at the same time      \* fields of one body that carry a non-number

(***************************************************************************)
(* TAX CONFIG                                                              *)
(***************************************************************************)
INF == -1   \* float('inf'): the unbounded upper limit of the last bracket

\* the module-level assignments, as the import of the module leaves them
ModuleGlobals ==
    [PIT_BRACKETS_NEW |->
        << [limit |-> 800000,   rate |-> 0],
           [limit |-> 3200000,  rate |-> 15],
           [limit |-> 7200000,  rate |-> 25],
           [limit |-> 12200000, rate |-> 30],
           [limit |-> 22200000, rate |-> 35],
           [limit |-> INF,      rate |-> 40] >>,
     PIT_BRACKETS_OLD |->
        << [limit |-> 300000,  rate |-> 7],
           [limit |-> 600000,  rate |-> 11],
           [limit |-> 1100000, rate |-> 15],
           [limit |-> 1600000, rate |-> 19],
           [limit |-> 3200000, rate |-> 21],
           [limit |-> INF,     rate |-> 24] >>,
     CGT_RATE_NEW |-> 10,
     CGT_RATE_OLD |-> 5,
     HOUSING_ALLOWANCE_CAP |-> 500000]

\* a global name is looked up when the statement that reads it runs
\* the NEW regime reading the OLD table
PIT_BRACKETS_NEW_as_old == globals.PIT_BRACKETS_OLD

PIT_BRACKETS_NEW == globals.PIT_BRACKETS_NEW
PIT_BRACKETS_OLD == globals.PIT_BRACKETS_OLD
CGT_RATE_NEW == globals.CGT_RATE_NEW

\* CGT_RATE_OLD set to the new rate
CGT_RATE_OLD_as_new == CGT_RATE_NEW

CGT_RATE_OLD == globals.CGT_RATE_OLD
HOUSING_ALLOWANCE_CAP == globals.HOUSING_ALLOWANCE_CAP

\* a calculator that rebinds a global: the new table becomes the old one
globals_after_call_rebinding(g) ==
    [g EXCEPT !.PIT_BRACKETS_NEW = g.PIT_BRACKETS_OLD]

\* a calculator that consumes its table: the last bracket is popped
globals_after_call_popping(g) ==
    [g EXCEPT !.PIT_BRACKETS_OLD =
        IF Len(@) > 0 THEN SubSeq(@, 1, Len(@) - 1) ELSE @]

\* the globals after a call of calculate_pit or calculate_cit: the bodies
\* assign locals only and call no method of the tables
globals_after_call(g) == g

(***************************************************************************)
(* Arithmetic helpers.                                                     *)
(***************************************************************************)
\* Times with the percent taken for the rate (10 for 0.10)
TimesWhole(x, pct) == x * pct

\* x * rate, the rate given in percent
Times(x, pct) == (x * pct) \div 100

\* LeqBound with "<" in place of "<="
LeqBoundStrict(x, bound) == IF bound = INF THEN TRUE ELSE x < bound

\* amount <= bound, where the bound may be float('inf')
LeqBound(x, bound) == IF bound = INF THEN TRUE ELSE x <= bound

\* min(amount, limit), where the limit may be float('inf')
MinBound(x, limit) == IF limit = INF THEN x
                      ELSE IF x <= limit THEN x ELSE limit

\* Max0 without the floor: the difference as it is
NoFloor(x) == x

\* max(0, x)
Max0(x) == IF x > 0 THEN x ELSE 0

\* x / 52 in place of x / 12
Div52(x) == [num |-> x, den |-> 52]

\* x / 12
Div12(x) == [num |-> x, den |-> 12]

\* RatSub with its operands exchanged
RatSubReversed(a, b) == [num |-> b.num - a.num, den |-> a.den]

\* a - b for two quotients of the same denominator
RatSub(a, b) == [num |-> a.num - b.num, den |-> a.den]

(***************************************************************************)
(* calculate_progressive_tax: the loop over the brackets.  i is the index  *)
(* of the bracket the loop is at, tax_ and prev_ the loop's variables.     *)
(***************************************************************************)
RECURSIVE BracketLoop(_, _, _, _, _)
BracketLoop(amt, table, i, tax_, prev_) ==
    IF i > Len(table) THEN tax_
    ELSE IF LeqBound(amt, prev_) THEN tax_
    ELSE LET limit == table[i].limit
             portion == MinBound(amt, limit) - prev_
         IN  BracketLoop(amt, table, i + 1,
                         tax_ + Times(portion, table[i].rate), limit)

\* the loop with "tax = portion * rate" in place of "tax += portion * rate"
RECURSIVE BracketLoopOverwrite(_, _, _, _, _)
BracketLoopOverwrite(amt, table, i, tax_, prev_) ==
    IF i > Len(table) THEN tax_
    ELSE IF LeqBound(amt, prev_) THEN tax_
    ELSE LET limit == table[i].limit
             portion == MinBound(amt, limit) - prev_
         IN  BracketLoopOverwrite(amt, table, i + 1,
                                  Times(portion, table[i].rate), limit)

calculate_progressive_tax_overwrite(amt, table) ==
    BracketLoopOverwrite(amt, table, 1, 0, 0)

\* the loop without its "if amount <= prev: break"
RECURSIVE BracketLoopNoBreak(_, _, _, _, _)
BracketLoopNoBreak(amt, table, i, tax_, prev_) ==
    IF i > Len(table) THEN tax_
    ELSE LET limit == table[i].limit
             portion == MinBound(amt, limit) - prev_
         IN  BracketLoopNoBreak(amt, table, i + 1,
                                tax_ + Times(portion, table[i].rate), limit)

calculate_progressive_tax_nobreak(amt, table) ==
    BracketLoopNoBreak(amt, table, 1, 0, 0)

\* the loop with "portion = min(amount, limit)", the lower bound not taken off
RECURSIVE BracketLoopNoLower(_, _, _, _, _)
BracketLoopNoLower(amt, table, i, tax_, prev_) ==
    IF i > Len(table) THEN tax_
    ELSE IF LeqBound(amt, prev_) THEN tax_
    ELSE LET limit == table[i].limit
             portion == MinBound(amt, limit)
         IN  BracketLoopNoLower(amt, table, i + 1,
                                tax_ + Times(portion, table[i].rate), limit)

calculate_progressive_tax_nolower(amt, table) ==
    BracketLoopNoLower(amt, table, 1, 0, 0)

\* a slab tax: the rate of the bracket the amount falls in, on all of it
calculate_progressive_tax_slab(amt, table) ==
    LET i == CHOOSE k \in 1..Len(table) :
                 /\ LeqBound(amt, table[k].limit)
                 /\ \A j \in 1..(k - 1) : ~LeqBound(amt, table[j].limit)
    IN  Times(amt, table[i].rate)

calculate_progressive_tax(amt, table) == BracketLoop(amt, table, 1, 0, 0)

(***************************************************************************)
(* The bracket engine called on its own.                                   *)
(***************************************************************************)
Amounts == {k * 100000 : k \in 0..MaxAmount}
Tables == {PIT_BRACKETS_OLD, PIT_BRACKETS_NEW}

EngineInit ==
    /\ amount \in Amounts
    /\ brackets \in Tables
    /\ tax = 0
    /\ returned = FALSE
    /\ pos = 0
    /\ prev = 0

\* the call returns
EngineReturn ==
    /\ ~returned
    /\ tax' = calculate_progressive_tax(amount, brackets)
    /\ returned' = TRUE
    /\ UNCHANGED <<amount, brackets, pos, prev, routeVars, serverVars>>

\* the next call, on other arguments
EngineCall ==
    /\ returned
    /\ \E a \in Amounts, t \in Tables :
          /\ amount' = a
          /\ brackets' = t
    /\ tax' = 0
    /\ returned' = FALSE
    /\ UNCHANGED <<pos, prev, routeVars, serverVars>>

(***************************************************************************)
(* calculate_progressive_tax statement by statement: one action for each   *)
(* way an entry of `brackets` is dealt with.                               *)
(***************************************************************************)
\* tax = 0; prev = 0, before the first entry is taken
LoopInit ==
    /\ amount \in Amounts
    /\ brackets \in Tables
    /\ tax = 0
    /\ prev = 0
    /\ pos = 0
    /\ returned = FALSE

\* the next entry is taken and "if amount <= prev: break" leaves the loop
LoopBreak ==
    /\ ~returned
    /\ pos < Len(brackets)
    /\ LeqBound(amount, prev)
    /\ pos' = pos + 1
    /\ returned' = TRUE
    /\ UNCHANGED <<amount, brackets, tax, prev, routeVars, serverVars>>

\* the next entry is taken and its portion is taxed
LoopBody ==
    /\ ~returned
    /\ pos < Len(brackets)
    /\ ~LeqBound(amount, prev)
    /\ LET limit == brackets[pos + 1].limit
           portion == MinBound(amount, limit) - prev
       IN  /\ tax' = tax + Times(portion, brackets[pos + 1].rate)
           /\ prev' = limit
    /\ pos' = pos + 1
    /\ UNCHANGED <<amount, brackets, returned, routeVars, serverVars>>

\* no entry is left: return tax
LoopExhausted ==
    /\ ~returned
    /\ pos = Len(brackets)
    /\ returned' = TRUE
    /\ UNCHANGED <<amount, brackets, tax, prev, pos, routeVars, serverVars>>

\* the next call, on other arguments
LoopCall ==
    /\ returned
    /\ \E a \in Amounts, t \in Tables :
          /\ amount' = a
          /\ brackets' = t
    /\ tax' = 0
    /\ prev' = 0
    /\ pos' = 0
    /\ returned' = FALSE
    /\ UNCHANGED <<routeVars, serverVars>>

LoopStep == LoopBreak \/ LoopBody \/ LoopExhausted

(***************************************************************************)
(* JSON values of a request body, and Python's float() on them.            *)
(* A string is the sequence of its characters.                             *)
(***************************************************************************)
JAbsent  == [kind |-> "absent", num |-> 0, str |-> <<>>, bool |-> FALSE]
JNull    == [kind |-> "null",   num |-> 0, str |-> <<>>, bool |-> FALSE]
JNum(n)  == [kind |-> "number", num |-> n, str |-> <<>>, bool |-> FALSE]
JStr(s)  == [kind |-> "string", num |-> 0, str |-> s,    bool |-> FALSE]
JBool(b) == [kind |-> "bool",   num |-> 0, str |-> <<>>, bool |-> b]

DigitChars == <<"0", "1", "2", "3", "4", "5", "6", "7", "8", "9">>

IsDigit(c) == \E i \in 1..Len(DigitChars) : DigitChars[i] = c
DigitVal(c) == (CHOOSE i \in 1..Len(DigitChars) : DigitChars[i] = c) - 1

\* the value of a string of decimal digits, read left to right
RECURSIVE DigitsValue(_, _)
DigitsValue(s, acc) ==
    IF s = <<>> THEN acc
    ELSE DigitsValue(Tail(s), 10 * acc + DigitVal(Head(s)))

AllDigits(s) == Len(s) > 0 /\ \A i \in 1..Len(s) : IsDigit(s[i])

Value(v) == [ok |-> TRUE, val |-> v, exc |-> "none"]
Raise(e) == [ok |-> FALSE, val |-> 0, exc |-> e]

\* float(str): an optional sign followed by decimal digits; any other
\* string of the model's alphabet is not a number
FloatOfString(s) ==
    IF AllDigits(s) THEN Value(DigitsValue(s, 0))
    ELSE IF Len(s) > 1 /\ Head(s) = "-" /\ AllDigits(Tail(s))
         THEN Value(0 - DigitsValue(Tail(s), 0))
    ELSE IF Len(s) > 1 /\ Head(s) = "+" /\ AllDigits(Tail(s))
         THEN Value(DigitsValue(Tail(s), 0))
    ELSE Raise("ValueError")

\* float(x) for a JSON value x
Float(x) ==
    CASE x.kind = "number" -> Value(x.num)
      [] x.kind = "string" -> FloatOfString(x.str)
      [] x.kind = "bool"   -> Value(IF x.bool THEN 1 ELSE 0)
      [] OTHER             -> Raise("TypeError")

\* data.get(key) used as if a missing key gave the default: it gives None
Get_no_default(data, key, default) ==
    IF data[key].kind = "absent" THEN JNull ELSE data[key]

\* data.get(key, default)
Get(data, key, default) ==
    IF data[key].kind = "absent" THEN default ELSE data[key]

\* float(data.get(key, 0))
FloatField(data, key) == Float(Get(data, key, JNum(0)))

\* the exception of the first of a sequence of evaluations that raised
FirstRaised(evals) ==
    IF \A i \in 1..Len(evals) : evals[i].ok THEN "none"
    ELSE evals[CHOOSE i \in 1..Len(evals) :
                   /\ ~evals[i].ok
                   /\ \A j \in 1..(i - 1) : evals[j].ok].exc

(***************************************************************************)
(* PIT LOGIC                                                               *)
(***************************************************************************)
\* housing with the cap applied under the old law instead of the new
housing_cap_inverted(housing_raw, use_old_law) ==
    IF ~use_old_law THEN housing_raw
    ELSE IF housing_raw <= HOUSING_ALLOWANCE_CAP
         THEN housing_raw ELSE HOUSING_ALLOWANCE_CAP

\* the housing allowance that counts: capped under the new law only
housing(housing_raw, use_old_law) ==
    IF use_old_law THEN housing_raw
    ELSE IF housing_raw <= HOUSING_ALLOWANCE_CAP
         THEN housing_raw ELSE HOUSING_ALLOWANCE_CAP

\* cra with the percentages of the two laws exchanged
cra_swapped(gross, use_old_law) ==
    IF use_old_law THEN Times(gross, 20) + 200000
    ELSE Times(gross, 1) + 200000

\* cra with the old law's 1% kept under the new law
cra_one_percent(gross, use_old_law) == Times(gross, 1) + 200000

\* Consolidated Relief Allowance: 1% (old) or 20% (new) of gross + 200,000
cra(gross, use_old_law) ==
    IF use_old_law THEN Times(gross, 1) + 200000
    ELSE Times(gross, 20) + 200000

\* gross with the capital and digital asset gains counted in
gross_with_gains(v) ==
    v.basic + v.housing + v.transport + v.others
        + v.capital_gains + v.digital_assets

\* gross income, from the local variables v of calculate_pit
gross_income(v) == v.basic + v.housing + v.transport + v.others

calculate_pit(data, use_old_law) ==
    LET basic_         == FloatField(data, "basic_salary")
        housing_raw_   == FloatField(data, "housing_allowance")
        transport_     == FloatField(data, "transport_allowance")
        others_        == FloatField(data, "other_allowances")
        pension_       == FloatField(data, "pension")
        nhf_           == FloatField(data, "nhf")
        life_          == FloatField(data, "life_insurance")
        capital_gains_ == FloatField(data, "capital_gains")
        digital_assets_ == FloatField(data, "digital_assets")
        raised == FirstRaised(<<basic_, housing_raw_, transport_, others_,
                                pension_, nhf_, life_, capital_gains_,
                                digital_assets_>>)
        basic == basic_.val
        housing_raw == housing_raw_.val
        housing_ == housing(housing_raw, use_old_law)
        transport == transport_.val
        others == others_.val
        pension == pension_.val
        nhf == nhf_.val
        life == life_.val
        capital_gains == capital_gains_.val
        digital_assets == digital_assets_.val
        gross == gross_income([basic |-> basic, housing |-> housing_,
                               transport |-> transport, others |-> others,
                               capital_gains |-> capital_gains,
                               digital_assets |-> digital_assets])
        cra_ == cra(gross, use_old_law)
        cgt_rate == IF use_old_law THEN CGT_RATE_OLD ELSE CGT_RATE_NEW
        table == IF use_old_law THEN PIT_BRACKETS_OLD ELSE PIT_BRACKETS_NEW
        law_label == IF use_old_law THEN "OLD" ELSE "NEW"
        first_tax_free == IF use_old_law THEN 0 ELSE 800000
        deductions == pension + nhf + life
        taxable_income == Max0(gross - cra_ - deductions)
        annual_paye == calculate_progressive_tax(taxable_income, table)
        monthly_paye == Div12(annual_paye)
        cgt == Times(capital_gains + digital_assets, cgt_rate)
        total_tax == annual_paye + cgt
        net_income == gross + capital_gains + digital_assets - total_tax
        monthly_take_home == Div12(net_income)
    IN  IF raised # "none" THEN [exc |-> raised]
        ELSE [exc |-> "none",
              ret |-> [law |-> law_label,
                       gross_income |-> gross,
                       cra |-> cra_,
                       taxable_income |-> taxable_income,
                       annual_paye |-> annual_paye,
                       monthly_paye |-> monthly_paye,
                       capital_gains_tax |-> cgt,
                       total_tax |-> total_tax,
                       net_income |-> net_income,
                       monthly_take_home |-> monthly_take_home,
                       housing_allowance_capped |-> housing_,
                       housing_raw |-> housing_raw,
                       first_tax_free |-> first_tax_free]]

(***************************************************************************)
(* CIT LOGIC                                                               *)
(***************************************************************************)
\* rate with exclusive upper bounds ("<" in place of "<=")
rate_exclusive(turnover, use_old_law) ==
    IF use_old_law
    THEN IF turnover < 25000000 THEN 0
         ELSE IF turnover < 100000000 THEN 20
         ELSE 30
    ELSE IF turnover < 50000000 THEN 0
         ELSE IF turnover < 150000000 THEN 18
         ELSE 25

\* rate with the new thresholds but the old law's 20% and 30%
rate_unreduced(turnover, use_old_law) ==
    IF use_old_law
    THEN IF turnover <= 25000000 THEN 0
         ELSE IF turnover <= 100000000 THEN 20
         ELSE 30
    ELSE IF turnover <= 50000000 THEN 0
         ELSE IF turnover <= 150000000 THEN 20
         ELSE 30

\* rate with the two regimes' tiers exchanged
rate_swapped(turnover, use_old_law) ==
    IF use_old_law
    THEN IF turnover <= 50000000 THEN 0
         ELSE IF turnover <= 150000000 THEN 18
         ELSE 25
    ELSE IF turnover <= 25000000 THEN 0
         ELSE IF turnover <= 100000000 THEN 20
         ELSE 30

\* the rate of the turnover's tier, in percent
rate(turnover, use_old_law) ==
    IF use_old_law
    THEN IF turnover <= 25000000 THEN 0
         ELSE IF turnover <= 100000000 THEN 20
         ELSE 30
    ELSE IF turnover <= 50000000 THEN 0
         ELSE IF turnover <= 150000000 THEN 18
         ELSE 25

\* the name of the turnover's tier
company_size(turnover, use_old_law) ==
    IF use_old_law
    THEN IF turnover <= 25000000 THEN "Small Company"
         ELSE IF turnover <= 100000000 THEN "Medium Company"
         ELSE "Large Company"
    ELSE IF turnover <= 50000000 THEN "Small Company"
         ELSE IF turnover <= 150000000 THEN "Medium Company"
         ELSE "Large Company"

\* the tax payable with a floor at 0
cit_payable_floored(profit, pct) == Max0(Times(profit, pct))

\* the tax payable: profit * rate
cit_payable(profit, pct) == Times(profit, pct)

calculate_cit(data, use_old_law) ==
    LET turnover_ == FloatField(data, "turnover")
        profit_   == FloatField(data, "profit")
        raised == FirstRaised(<<turnover_, profit_>>)
        turnover == turnover_.val
        profit == profit_.val
        rate_ == rate(turnover, use_old_law)
        size_ == company_size(turnover, use_old_law)
        law_label == IF use_old_law THEN "OLD" ELSE "NEW"
        cit == cit_payable(profit, rate_)
        net_profit == profit - cit
        monthly_net_profit == Div12(net_profit)
    IN  IF raised # "none" THEN [exc |-> raised]
        ELSE [exc |-> "none",
              ret |-> [law |-> law_label,
                       company_size |-> size_,
                       turnover |-> turnover,
                       profit |-> profit,
                       cit_rate |-> rate_,
                       cit_payable |-> cit,
                       net_profit |-> net_profit,
                       monthly_net_profit |-> monthly_net_profit]]

(***************************************************************************)
(* ROUTES: POST /calculate                                                 *)
(***************************************************************************)
PIT == <<"P", "I", "T">>
CIT == <<"C", "I", "T">>

\* Recommendation with a tie resolved to NEW (">=" in place of ">")
RecommendationTieNew(net_diff) ==
    IF net_diff >= 0 THEN "Better under NEW law" ELSE "Better under OLD law"

\* Recommendation with the comparison turned round ("<" in place of ">")
RecommendationReversed(net_diff) ==
    IF net_diff < 0 THEN "Better under NEW law" ELSE "Better under OLD law"

Recommendation(net_diff) ==
    IF net_diff > 0 THEN "Better under NEW law" ELSE "Better under OLD law"

\* an exception that leaves the view function is answered with status 500
InternalServerError(e) == [status |-> 500, exc |-> e]

\* the jsonify of the PIT branch, from the two results
pit_response(o, n) ==
    LET tax_diff == n.total_tax - o.total_tax
        net_diff == n.net_income - o.net_income
        monthly_diff == RatSub(n.monthly_take_home, o.monthly_take_home)
    IN  [status |-> 200,
         old |-> o,
         new |-> n,
         comparison |->
           [tax_difference |-> tax_diff,
            net_income_difference |-> net_diff,
            monthly_take_home_difference |-> monthly_diff,
            recommendation |-> Recommendation(net_diff)]]

\* the jsonify of the CIT branch, from the two results
cit_response(o, n) ==
    LET tax_diff == n.cit_payable - o.cit_payable
        net_diff == n.net_profit - o.net_profit
        monthly_diff == RatSub(n.monthly_net_profit, o.monthly_net_profit)
    IN  [status |-> 200,
         old |-> o,
         new |-> n,
         comparison |->
           [tax_difference |-> tax_diff,
            net_profit_difference |-> net_diff,
            monthly_profit_difference |-> monthly_diff,
            recommendation |-> Recommendation(net_diff)]]

calculate(data) ==
    LET tax_type == Get(data, "tax_type", JNull)
    IN  IF tax_type = JStr(PIT)
        THEN LET old_result == calculate_pit(data, TRUE)
                 new_result == calculate_pit(data, FALSE)
             IN  IF old_result.exc # "none"
                 THEN InternalServerError(old_result.exc)
                 ELSE IF new_result.exc # "none"
                 THEN InternalServerError(new_result.exc)
                 ELSE pit_response(old_result.ret, new_result.ret)
        ELSE LET old_result == calculate_cit(data, TRUE)
                 new_result == calculate_cit(data, FALSE)
             IN  IF old_result.exc # "none"
                 THEN InternalServerError(old_result.exc)
                 ELSE IF new_result.exc # "none"
                 THEN InternalServerError(new_result.exc)
                 ELSE cit_response(old_result.ret, new_result.ret)

(***************************************************************************)
(* Python floats.  The calculators compute in IEEE 754 doubles: every      *)
(* product, sum, difference and quotient is the exact result rounded to 53 *)
(* bits, ties to even.  A double is [neg, mant, exp], standing for         *)
(* +/- mant * 2^exp with mant a natural number of exactly 53 bits, or 0.   *)
(* mant is a sequence of limbs to the base 2^15, least significant first,  *)
(* with no leading zero limb.  Overflow, subnormals and NaN are out of     *)
(* reach of the amounts of the model; the sign of a zero is not kept.      *)
(***************************************************************************)
Limb == 32768

Pow2(k) == 2 ^ k

\* a limb sequence without its leading zero limbs
RECURSIVE NatNorm(_)
NatNorm(a) ==
    IF Len(a) > 0 /\ a[Len(a)] = 0 THEN NatNorm(SubSeq(a, 1, Len(a) - 1))
    ELSE a

\* the natural number n < 2^31 as limbs
NatOf(n) == NatNorm(<<n % Limb, (n \div Limb) % Limb, n \div (Limb * Limb)>>)

NatLimb(a, i) == IF i <= Len(a) THEN a[i] ELSE 0

RECURSIVE NatAddFrom(_, _, _, _)
NatAddFrom(a, b, i, carry) ==
    IF i > Len(a) /\ i > Len(b)
    THEN IF carry = 0 THEN <<>> ELSE <<carry>>
    ELSE LET s == NatLimb(a, i) + NatLimb(b, i) + carry
         IN  <<s % Limb>> \o NatAddFrom(a, b, i + 1, s \div Limb)

NatAdd(a, b) == NatAddFrom(a, b, 1, 0)

\* a - b for a >= b
RECURSIVE NatSubFrom(_, _, _, _)
NatSubFrom(a, b, i, borrow) ==
    IF i > Len(a) THEN <<>>
    ELSE LET d == a[i] - NatLimb(b, i) - borrow
         IN  IF d < 0
             THEN <<d + Limb>> \o NatSubFrom(a, b, i + 1, 1)
             ELSE <<d>> \o NatSubFrom(a, b, i + 1, 0)

NatSub(a, b) == NatNorm(NatSubFrom(a, b, 1, 0))

\* -1, 0 or 1 as a is below, equal to or above b
RECURSIVE NatCmpFrom(_, _, _)
NatCmpFrom(a, b, i) ==
    IF i = 0 THEN 0
    ELSE IF a[i] < b[i] THEN -1
    ELSE IF a[i] > b[i] THEN 1
    ELSE NatCmpFrom(a, b, i - 1)

NatCmp(a, b) ==
    IF Len(a) < Len(b) THEN -1
    ELSE IF Len(a) > Len(b) THEN 1
    ELSE NatCmpFrom(a, b, Len(a))

\* a * m for a limb m
RECURSIVE NatMulLimbFrom(_, _, _, _)
NatMulLimbFrom(a, m, i, carry) ==
    IF i > Len(a)
    THEN IF carry = 0 THEN <<>> ELSE <<carry>>
    ELSE LET p == a[i] * m + carry
         IN  <<p % Limb>> \o NatMulLimbFrom(a, m, i + 1, p \div Limb)

NatMulLimb(a, m) == NatNorm(NatMulLimbFrom(a, m, 1, 0))

\* a * Limb^k
NatShiftLimbs(a, k) ==
    IF Len(a) = 0 THEN a ELSE [i \in 1..k |-> 0] \o a

RECURSIVE NatMulFrom(_, _, _)
NatMulFrom(a, b, i) ==
    IF i > Len(b) THEN <<>>
    ELSE NatAdd(NatShiftLimbs(NatMulLimb(a, b[i]), i - 1),
                NatMulFrom(a, b, i + 1))

NatMul(a, b) == NatNorm(NatMulFrom(a, b, 1))

\* quotient and remainder of a by d, 0 < d <= Limb, from the top limb down
RECURSIVE NatDivLimbFrom(_, _, _, _)
NatDivLimbFrom(a, d, i, r) ==
    IF i = 0 THEN [q |-> <<>>, r |-> r]
    ELSE LET cur == r * Limb + a[i]
             rest == NatDivLimbFrom(a, d, i - 1, cur % d)
         IN  [q |-> rest.q \o <<cur \div d>>, r |-> rest.r]

NatDivLimb(a, d) ==
    LET res == NatDivLimbFrom(a, d, Len(a), 0)
    IN  [q |-> NatNorm(res.q), r |-> res.r]

\* a * 2^k
NatShl(a, k) == NatShiftLimbs(NatMulLimb(a, Pow2(k % 15)), k \div 15)

\* floor(a / 2^k)
NatShr(a, k) ==
    LET drop == k \div 15
    IN  IF drop >= Len(a) THEN <<>>
        ELSE NatDivLimb(SubSeq(a, drop + 1, Len(a)), Pow2(k % 15)).q

RECURSIVE BitsOfLimb(_)
BitsOfLimb(x) == IF x = 0 THEN 0 ELSE 1 + BitsOfLimb(x \div 2)

\* the number of bits of a
NatBits(a) ==
    IF Len(a) = 0 THEN 0 ELSE 15 * (Len(a) - 1) + BitsOfLimb(a[Len(a)])

NatOdd(a) == Len(a) > 0 /\ a[1] % 2 = 1

FloatZero == [neg |-> FALSE, mant |-> <<>>, exp |-> 0]

\* +/- n * 2^e, plus something below one unit of n if `sticky`, rounded to
\* the nearest double, ties to even
FloatRound(neg, n, e, sticky) ==
    LET bits == NatBits(n)
    IN  IF bits = 0 THEN FloatZero
        ELSE IF bits <= 53
        THEN [neg |-> neg, mant |-> NatShl(n, 53 - bits),
              exp |-> e - (53 - bits)]
        ELSE LET k == bits - 53
                 q == NatShr(n, k)
                 rem == NatSub(n, NatShl(q, k))
                 half == NatShl(NatOf(1), k - 1)
                 c == NatCmp(rem, half)
                 up == \/ c > 0
                       \/ c = 0 /\ (sticky \/ NatOdd(q))
                 m == IF up THEN NatAdd(q, NatOf(1)) ELSE q
             IN  IF NatBits(m) = 54
                 THEN [neg |-> neg, mant |-> NatShr(m, 1), exp |-> e + k + 1]
                 ELSE [neg |-> neg, mant |-> m, exp |-> e + k]

\* float(n) for an integer n, |n| < 2^31
FloatOfInt(n) ==
    IF n < 0 THEN FloatRound(TRUE, NatOf(-n), 0, FALSE)
    ELSE FloatRound(FALSE, NatOf(n), 0, FALSE)

\* the double of the literal p/100 (0.18 for p = 18)
FloatOfPercent(p) ==
    LET d == NatDivLimb(NatShl(NatOf(p), 64), 100)
    IN  FloatRound(FALSE, d.q, -64, d.r # 0)

FloatNeg(x) ==
    IF Len(x.mant) = 0 THEN x ELSE [x EXCEPT !.neg = ~x.neg]

\* x + y exactly, not rounded: the mantissa may have any number of bits
FloatSumExact(x, y) ==
    IF Len(x.mant) = 0 THEN y
    ELSE IF Len(y.mant) = 0 THEN x
    ELSE LET e == IF x.exp < y.exp THEN x.exp ELSE y.exp
             a == NatShl(x.mant, x.exp - e)
             b == NatShl(y.mant, y.exp - e)
             c == NatCmp(a, b)
         IN  IF x.neg = y.neg
             THEN [neg |-> x.neg, mant |-> NatAdd(a, b), exp |-> e]
             ELSE IF c = 0 THEN FloatZero
             ELSE IF c > 0
             THEN [neg |-> x.neg, mant |-> NatSub(a, b), exp |-> e]
             ELSE [neg |-> y.neg, mant |-> NatSub(b, a), exp |-> e]

\* x + y
FloatAdd(x, y) ==
    IF Len(x.mant) = 0 THEN y
    ELSE IF Len(y.mant) = 0 THEN x
    ELSE LET s == FloatSumExact(x, y)
         IN  FloatRound(s.neg, s.mant, s.exp, FALSE)

\* x - y
FloatSub(x, y) == FloatAdd(x, FloatNeg(y))

\* x * y
FloatMul(x, y) ==
    IF Len(x.mant) = 0 \/ Len(y.mant) = 0 THEN FloatZero
    ELSE FloatRound(x.neg # y.neg, NatMul(x.mant, y.mant), x.exp + y.exp,
                    FALSE)

\* x / d for an integer d, 0 < d < 2^11
FloatDivInt(x, d) ==
    LET res == NatDivLimb(NatShl(x.mant, 15), d)
    IN  FloatRound(x.neg, res.q, x.exp - 15, res.r # 0)

\* -1, 0 or 1 as x is below, equal to or above y
FloatCmp(x, y) ==
    LET s == FloatSumExact(x, FloatNeg(y))
    IN  IF Len(s.mant) = 0 THEN 0 ELSE IF s.neg THEN -1 ELSE 1

FloatLeq(x, y) == FloatCmp(x, y) <= 0
FloatLess(x, y) == FloatCmp(x, y) < 0
FloatMin(x, y) == IF FloatLess(y, x) THEN y ELSE x

\* x / 52: the weekly in place of the monthly figure
FloatDiv52(x) == FloatDivInt(x, 52)

\* x / 12
FloatDiv12(x) == FloatDivInt(x, 12)

(***************************************************************************)
(* The calculators and the route as the interpreter runs them, in doubles. *)
(* The amounts of a request are whole numbers; float() makes them doubles. *)
(***************************************************************************)
\* The loop of calculate_progressive_tax.  Its variables are kept in a record
\* st that each statement rewrites: tax, and prev as [inf, val], the limit of
\* the bracket before, which float('inf') makes unbounded.
\* line 39, min(amount, limit)
bracket_min_float(amt, bracket, st) ==
    [tax |-> st.tax, prev |-> st.prev,
     least |-> IF bracket.limit = INF THEN amt
               ELSE FloatMin(amt, FloatOfInt(bracket.limit))]

\* line 39: portion = min(amount, limit) - prev
bracket_portion_float(st) ==
    [tax |-> st.tax, prev |-> st.prev,
     portion |-> FloatSub(st.least, st.prev.val)]

\* line 40, portion * rate
bracket_product_float(bracket, st) ==
    [tax |-> st.tax, prev |-> st.prev,
     product |-> FloatMul(st.portion, FloatOfPercent(bracket.rate))]

\* line 40: tax += portion * rate
bracket_tax_float(st) ==
    [prev |-> st.prev, tax |-> FloatAdd(st.tax, st.product)]

\* line 41: prev = limit
bracket_prev_float(bracket, st) ==
    [tax |-> st.tax,
     prev |-> IF bracket.limit = INF THEN [inf |-> TRUE, val |-> FloatZero]
              ELSE [inf |-> FALSE, val |-> FloatOfInt(bracket.limit)]]

\* lines 39-41, one pass of the loop body
bracket_body_float(amt, bracket, st) ==
    bracket_prev_float(bracket,
        bracket_tax_float(
            bracket_product_float(bracket,
                bracket_portion_float(
                    bracket_min_float(amt, bracket, st)))))

\* lines 32-33: tax = 0, prev = 0
bracket_start_float ==
    [tax |-> FloatZero, prev |-> [inf |-> FALSE, val |-> FloatZero]]

\* line 37: amount <= prev
bracket_break_float(amt, st) ==
    st.prev.inf \/ FloatLeq(amt, st.prev.val)

(***************************************************************************)
(* calculate_pit in doubles.  The locals are kept in a record that each    *)
(* group of statements extends, so that a local is computed once.          *)
(***************************************************************************)
\* lines 47-64: the fields as doubles, the housing allowance capped
pit_fields_float(data, use_old_law) ==
    [basic          |-> FloatOfInt(FloatField(data, "basic_salary").val),
     housing_raw    |-> FloatOfInt(FloatField(data, "housing_allowance").val),
     housing        |-> FloatOfInt(housing(
                            FloatField(data, "housing_allowance").val,
                            use_old_law)),
     transport      |-> FloatOfInt(FloatField(data, "transport_allowance").val),
     others         |-> FloatOfInt(FloatField(data, "other_allowances").val),
     pension        |-> FloatOfInt(FloatField(data, "pension").val),
     nhf            |-> FloatOfInt(FloatField(data, "nhf").val),
     life           |-> FloatOfInt(FloatField(data, "life_insurance").val),
     capital_gains  |-> FloatOfInt(FloatField(data, "capital_gains").val),
     digital_assets |-> FloatOfInt(FloatField(data, "digital_assets").val),
     use_old_law    |-> use_old_law]

\* line 66: gross = basic + housing + transport + others
pit_gross_float(v) ==
    v @@ [gross |-> FloatAdd(FloatAdd(FloatAdd(v.basic, v.housing),
                                      v.transport), v.others)]

\* lines 68-83: cra = (0.01 or 0.20) * gross + 200000; the deductions
pit_relief_float(v) ==
    v @@ [cra |-> FloatAdd(FloatMul(FloatOfPercent(IF v.use_old_law THEN 1
                                                   ELSE 20), v.gross),
                           FloatOfInt(200000)),
          deductions |-> FloatAdd(FloatAdd(v.pension, v.nhf), v.life)]

\* line 85, the argument of max: gross - cra - deductions
pit_difference_float(v) ==
    v @@ [difference |-> FloatSub(FloatSub(v.gross, v.cra), v.deductions)]

\* line 85: taxable_income = max(0, gross - cra - deductions)
pit_taxable_float(v) ==
    v @@ [taxable_income |-> IF FloatLess(FloatZero, v.difference)
                             THEN v.difference ELSE FloatZero]

\* lines 72 and 79: the table of the law
pit_brackets(v) ==
    IF v.use_old_law THEN PIT_BRACKETS_OLD ELSE PIT_BRACKETS_NEW

\* line 86: annual_paye = calculate_progressive_tax(taxable_income, brackets)
pit_paye_float(v, returned_tax) == v @@ [annual_paye |-> returned_tax]

\* line 89: cgt = (capital_gains + digital_assets) * rate
pit_cgt_float(v) ==
    v @@ [cgt |-> FloatMul(FloatAdd(v.capital_gains, v.digital_assets),
                           FloatOfPercent(IF v.use_old_law THEN CGT_RATE_OLD
                                          ELSE CGT_RATE_NEW))]

\* line 90: total_tax = annual_paye + cgt
pit_total_float(v) ==
    v @@ [total_tax |-> FloatAdd(v.annual_paye, v.cgt)]

\* line 91: net_income = gross + capital_gains + digital_assets - total_tax
pit_net_float(v) ==
    v @@ [net_income |-> FloatSub(FloatAdd(FloatAdd(v.gross, v.capital_gains),
                                           v.digital_assets), v.total_tax)]

\* lines 87, 92 and 94-108: the monthly figures and the dict returned
pit_return_float(v) ==
    [law |-> IF v.use_old_law THEN "OLD" ELSE "NEW",
     gross_income |-> v.gross,
     cra |-> v.cra,
     taxable_income |-> v.taxable_income,
     annual_paye |-> v.annual_paye,
     monthly_paye |-> FloatDiv12(v.annual_paye),
     capital_gains_tax |-> v.cgt,
     total_tax |-> v.total_tax,
     net_income |-> v.net_income,
     monthly_take_home |-> FloatDiv12(v.net_income),
     housing_allowance_capped |-> v.housing,
     housing_raw |-> v.housing_raw,
     first_tax_free |-> IF v.use_old_law THEN 0 ELSE 800000]

\* the exception of the first float() of calculate_pit that raises
pit_raised(data) ==
    FirstRaised(<<FloatField(data, "basic_salary"),
                  FloatField(data, "housing_allowance"),
                  FloatField(data, "transport_allowance"),
                  FloatField(data, "other_allowances"),
                  FloatField(data, "pension"),
                  FloatField(data, "nhf"),
                  FloatField(data, "life_insurance"),
                  FloatField(data, "capital_gains"),
                  FloatField(data, "digital_assets")>>)

(***************************************************************************)
(* calculate_cit in doubles, in the same way.                              *)
(***************************************************************************)
\* lines 112-138: the fields as doubles, the rate and the size of the tier
cit_fields_float(data, use_old_law) ==
    [turnover |-> FloatOfInt(FloatField(data, "turnover").val),
     profit |-> FloatOfInt(FloatField(data, "profit").val),
     rate |-> FloatOfPercent(rate(FloatField(data, "turnover").val,
                                  use_old_law)),
     company_size |-> company_size(FloatField(data, "turnover").val,
                                   use_old_law),
     use_old_law |-> use_old_law]

\* line 140: cit = profit * rate
cit_payable_float(v) == v @@ [cit |-> FloatMul(v.profit, v.rate)]

\* line 141: net_profit = profit - cit
cit_net_float(v) == v @@ [net_profit |-> FloatSub(v.profit, v.cit)]

\* lines 142-153: the monthly figure and the dict returned
cit_return_float(v) ==
    [law |-> IF v.use_old_law THEN "OLD" ELSE "NEW",
     company_size |-> v.company_size,
     turnover |-> v.turnover,
     profit |-> v.profit,
     cit_rate |-> FloatMul(v.rate, FloatOfInt(100)),
     cit_payable |-> v.cit,
     net_profit |-> v.net_profit,
     monthly_net_profit |-> FloatDiv12(v.net_profit)]

\* the exception of the first float() of calculate_cit that raises
cit_raised(data) ==
    FirstRaised(<<FloatField(data, "turnover"), FloatField(data, "profit")>>)

(***************************************************************************)
(* The view function in doubles.                                           *)
(***************************************************************************)
\* the recommendation, from net_diff as a double
recommendation_float(net_diff) == Recommendation(FloatCmp(net_diff, FloatZero))

\* lines 170-186, after the two results
pit_response_float(o, n) ==
    [status |-> 200,
     old |-> o,
     new |-> n,
     comparison |->
       [tax_difference |-> FloatSub(n.total_tax, o.total_tax),
        net_income_difference |-> FloatSub(n.net_income, o.net_income),
        monthly_take_home_difference |->
           FloatSub(n.monthly_take_home, o.monthly_take_home),
        recommendation |->
           recommendation_float(FloatSub(n.net_income, o.net_income))]]

\* lines 192-208, after the two results
cit_response_float(o, n) ==
    [status |-> 200,
     old |-> o,
     new |-> n,
     comparison |->
       [tax_difference |-> FloatSub(n.cit_payable, o.cit_payable),
        net_profit_difference |-> FloatSub(n.net_profit, o.net_profit),
        monthly_profit_difference |->
           FloatSub(n.monthly_net_profit, o.monthly_net_profit),
        recommendation |->
           recommendation_float(FloatSub(n.net_profit, o.net_profit))]]

(***************************************************************************)
(* Clients.  A body is the dict `data`: every key of Keys, JAbsent for a   *)
(* key the body does not carry.                                            *)
(***************************************************************************)
PITFields == {"basic_salary", "housing_allowance", "transport_allowance",
              "other_allowances", "pension", "nhf", "life_insurance",
              "capital_gains", "digital_assets"}
CITFields == {"turnover", "profit"}
Keys == {"tax_type"} \cup PITFields \cup CITFields

\* the decimal digits of a natural number
RECURSIVE NatDigits(_)
NatDigits(n) ==
    IF n < 10 THEN <<DigitChars[n + 1]>>
    ELSE Append(NatDigits(n \div 10), DigitChars[(n % 10) + 1])

\* the text of an <input type="number"> holding n
ToStr(n) == IF n < 0 THEN <<"-">> \o NatDigits(0 - n) ELSE NatDigits(n)

\* a number as the client puts it in the body: a JSON number, or the
\* string the form field holds
Encode(n, enc) == IF enc = "string" THEN JStr(ToStr(n)) ELSE JNum(n)

VAT == <<"V", "A", "T">>
TaxTypes == {JStr(PIT), JStr(CIT), JStr(VAT), JAbsent}

PITInputs ==
    [basic_salary        : {k * 1000000  : k \in 0..MaxBasic},
     housing_allowance   : {k * 300000   : k \in 0..MaxHousing}
                              \cup {12000000},
     transport_allowance : {k * 400000   : k \in 0..MaxTransport},
     other_allowances    : {k * 10000000 : k \in 0..MaxOthers},
     pension             : {k * 2000000  : k \in 0..MaxDeduction},
     nhf                 : {k * 100000   : k \in 0..MaxDeduction},
     life_insurance      : {k * 100000   : k \in 0..MaxDeduction},
     capital_gains       : {k * 1000000  : k \in 0..MaxGains},
     digital_assets      : {k * 500000   : k \in 0..MaxGains}]

CITInputs ==
    [turnover : {k * 5000000 + d : k \in 0..MaxTurnover, d \in {0, 1}},
     profit   : {(k - 1) * 5000000 : k \in 0..MaxProfit}]

\* the body of a request that carries the fields of `input`
Body(tax_type, input, enc) ==
    [key \in Keys |->
        IF key = "tax_type" THEN tax_type
        ELSE IF key \in DOMAIN input THEN Encode(input[key], enc)
        ELSE JAbsent]

NoRequest == <<>>
NoResponse == [status |-> 0]

RouteInit ==
    /\ request = NoRequest
    /\ response = NoResponse

Idle == request = NoRequest /\ response = NoResponse

\* a client posts a body whose fields are numbers
Post ==
    /\ Idle
    /\ \E tax_type \in TaxTypes, input \in PITInputs \cup CITInputs,
          enc \in {"number", "string"} :
          request' = Body(tax_type, input, enc)
    /\ response' = NoResponse
    /\ UNCHANGED <<engineVars, serverVars>>

\* what a field may carry in place of a number
Specials == {JAbsent, JNull, JStr(<<"a", "b", "c">>), JStr(<<>>),
             JBool(FALSE), JNum(0)}

NominalInput ==
    [basic_salary |-> 1000000, housing_allowance |-> 600000,
     transport_allowance |-> 400000, other_allowances |-> 10000000,
     pension |-> 2000000, nhf |-> 100000, life_insurance |-> 100000,
     capital_gains |-> 1000000, digital_assets |-> 500000,
     turnover |-> 80000000, profit |-> 10000000]

\* a client posts a body in which up to MaxSpecial fields carry a special
PostRaw ==
    /\ Idle
    /\ \E tax_type \in TaxTypes, S \in SUBSET (PITFields \cup CITFields) :
          /\ Cardinality(S) <= MaxSpecial
          /\ \E special \in [S -> Specials] :
                request' = [key \in Keys |->
                               IF key \in S THEN special[key]
                               ELSE Body(tax_type, NominalInput, "number")[key]]
    /\ response' = NoResponse
    /\ UNCHANGED <<engineVars, serverVars>>

\* the inputs of the requests followed in doubles
FloatPITInputs ==
    [basic_salary        : {1000000, 2500000},
     housing_allowance   : {0, 600000, 12000000},
     transport_allowance : {0, 400000},
     other_allowances    : {0, 10000000, 30000000},
     pension             : {0, 2000000},
     nhf                 : {100000},
     life_insurance      : {0, 100000},
     capital_gains       : {0, 1000000},
     digital_assets      : {0, 500000}]

FloatCITInputs ==
    [turnover : {25000000, 25000001, 80000000, 120000000, 150000001},
     profit   : {(k - 1) * 5000000 : k \in 0..MaxProfit}]

\* a client posts a PIT or a CIT body with the fields of its tax type
PostFloat ==
    /\ Idle
    /\ \/ \E input \in FloatPITInputs :
             request' = Body(JStr(PIT), input, "number")
       \/ \E input \in FloatCITInputs :
             request' = Body(JStr(CIT), input, "number")
    /\ response' = NoResponse
    /\ UNCHANGED <<engineVars, serverVars>>

(***************************************************************************)
(* The view function in doubles, one statement at a time.  frame.pc is the *)
(* statement to run next, frame.v the locals of the calculator called,     *)
(* frame.st and frame.i the variables of the loop of                       *)
(* calculate_progressive_tax, frame.old_result the first result.           *)
(***************************************************************************)
\* line 165: tax_type == "PIT"
pit_branch(data) == Get(data, "tax_type", JNull) = JStr(PIT)

\* no call of the view function is being followed
NoFrame ==
    [pc |-> "idle", use_old_law |-> FALSE, old_result |-> <<>>, v |-> <<>>,
     st |-> <<>>, i |-> 0]

\* lines 167 and 189: the branch calls its calculator with use_old_law=True
CallFloat ==
    /\ request # NoRequest
    /\ response = NoResponse
    /\ frame.pc = "idle"
    /\ frame' = [NoFrame EXCEPT !.pc = "fields", !.use_old_law = TRUE]
    /\ UNCHANGED <<routeVars, engineVars, globals, threads>>

\* lines 47-64 and 112-138: the fields become doubles; a float() that raises
\* ends the request
FieldsFloat ==
    /\ frame.pc = "fields"
    /\ LET raised == IF pit_branch(request) THEN pit_raised(request)
                     ELSE cit_raised(request)
       IN  IF raised # "none"
           THEN /\ response' = InternalServerError(raised)
                /\ frame' = NoFrame
           ELSE /\ response' = response
                /\ frame' =
                     IF pit_branch(request)
                     THEN [frame EXCEPT
                             !.pc = "gross",
                             !.v = pit_fields_float(request,
                                                    frame.use_old_law)]
                     ELSE [frame EXCEPT
                             !.pc = "cit",
                             !.v = cit_fields_float(request,
                                                    frame.use_old_law)]
    /\ UNCHANGED <<request, engineVars, globals, threads>>

\* the statement at `at` leaves the locals as `locals`, and control moves to
\* `to`
StatementFloat(at, to, locals) ==
    /\ frame.pc = at
    /\ frame' = [frame EXCEPT !.pc = to, !.v = locals]
    /\ UNCHANGED <<routeVars, engineVars, globals, threads>>

\* lines 66-85 and 89-91 of calculate_pit
PitStatementFloat ==
    \/ StatementFloat("gross", "cra", pit_gross_float(frame.v))
    \/ StatementFloat("cra", "difference", pit_relief_float(frame.v))
    \/ StatementFloat("difference", "taxable_income",
                      pit_difference_float(frame.v))
    \/ StatementFloat("taxable_income", "annual_paye",
                      pit_taxable_float(frame.v))
    \/ StatementFloat("cgt", "total_tax", pit_cgt_float(frame.v))
    \/ StatementFloat("total_tax", "net_income", pit_total_float(frame.v))
    \/ StatementFloat("net_income", "return", pit_net_float(frame.v))

\* lines 140-141 of calculate_cit
CitStatementFloat ==
    \/ StatementFloat("cit", "net_profit", cit_payable_float(frame.v))
    \/ StatementFloat("net_profit", "return", cit_net_float(frame.v))

\* line 86 calls calculate_progressive_tax; lines 32-33: tax = 0, prev = 0
LoopEnterFloat ==
    /\ frame.pc = "annual_paye"
    /\ frame' = [frame EXCEPT !.pc = "for", !.st = bracket_start_float,
                              !.i = 1]
    /\ UNCHANGED <<routeVars, engineVars, globals, threads>>

\* lines 36-41: one pass of the loop that does not break
LoopBodyFloat ==
    /\ frame.pc = "for"
    /\ frame.i <= Len(pit_brackets(frame.v))
    /\ ~bracket_break_float(frame.v.taxable_income, frame.st)
    /\ frame' = [frame EXCEPT
                   !.st = bracket_body_float(frame.v.taxable_income,
                              pit_brackets(frame.v)[frame.i], frame.st),
                   !.i = frame.i + 1]
    /\ UNCHANGED <<routeVars, engineVars, globals, threads>>

\* lines 36-38 and 43: the table is exhausted or the loop breaks; the tax is
\* returned to line 86
LoopReturnFloat ==
    /\ frame.pc = "for"
    /\ \/ frame.i > Len(pit_brackets(frame.v))
       \/ bracket_break_float(frame.v.taxable_income, frame.st)
    /\ frame' = [frame EXCEPT !.pc = "cgt",
                              !.v = pit_paye_float(frame.v, frame.st.tax)]
    /\ UNCHANGED <<routeVars, engineVars, globals, threads>>

\* lines 94-108 and 144-153: the dict the calculator returns
return_float(data, v) ==
    IF pit_branch(data) THEN pit_return_float(v) ELSE cit_return_float(v)

\* the first call returns; lines 168 and 190: the branch calls its calculator
\* with use_old_law=False
ReturnOldFloat ==
    /\ frame.pc = "return"
    /\ frame.use_old_law
    /\ frame' = [NoFrame EXCEPT
                   !.pc = "fields",
                   !.old_result = return_float(request, frame.v)]
    /\ globals' = globals_after_call(globals)
    /\ UNCHANGED <<routeVars, engineVars, threads>>

\* the second call returns; lines 171-186 and 193-208: the differences and
\* return jsonify({...})
ReturnNewFloat ==
    /\ frame.pc = "return"
    /\ ~frame.use_old_law
    /\ response' =
         IF pit_branch(request)
         THEN pit_response_float(frame.old_result,
                                 return_float(request, frame.v))
         ELSE cit_response_float(frame.old_result,
                                 return_float(request, frame.v))
    /\ frame' = NoFrame
    /\ globals' = globals_after_call(globals)
    /\ UNCHANGED <<request, engineVars, threads>>

CalculateFloat ==
    \/ CallFloat
    \/ FieldsFloat
    \/ PitStatementFloat
    \/ CitStatementFloat
    \/ LoopEnterFloat
    \/ LoopBodyFloat
    \/ LoopReturnFloat
    \/ ReturnOldFloat
    \/ ReturnNewFloat

\* the route answers the request in flight
Calculate ==
    /\ request # NoRequest
    /\ response = NoResponse
    /\ response' = calculate(request)
    /\ globals' = globals_after_call(globals_after_call(globals))
    /\ UNCHANGED <<request, engineVars, threads, frame>>

\* the client has read the answer; the exchange is over
Receive ==
    /\ response # NoResponse
    /\ request' = NoRequest
    /\ response' = NoResponse
    /\ UNCHANGED <<engineVars, serverVars>>

(***************************************************************************)
(* The server handles each request in a thread of its own; the threads     *)
(* share the module globals.  A thread runs the view function statement by *)
(* statement: data and tax_type, the OLD calculation, the NEW calculation, *)
(* the jsonify.                                                            *)
(***************************************************************************)
Threads == 1..MaxThreads

NoResult == <<>>
IdleThread == [pc |-> "idle", data |-> NoRequest, old_result |-> NoResult,
               new_result |-> NoResult, response |-> NoResponse]

SmallInput ==
    [basic_salary |-> 2000000, housing_allowance |-> 300000,
     transport_allowance |-> 0, other_allowances |-> 0,
     pension |-> 0, nhf |-> 100000, life_insurance |-> 0,
     capital_gains |-> 1000000, digital_assets |-> 0,
     turnover |-> 50000001, profit |-> 5000000]

\* the bodies the concurrent clients post; one of them makes float() raise
ThreadBodies ==
    {Body(tax_type, input, "number") :
        tax_type \in {JStr(PIT), JStr(CIT)},
        input \in {NominalInput, SmallInput}}
    \cup {[Body(JStr(PIT), NominalInput, "number")
              EXCEPT !["pension"] = JStr(<<"a", "b", "c">>)]}

ServerInit ==
    /\ globals = ModuleGlobals
    /\ threads = [t \in Threads |-> IdleThread]
    /\ frame = NoFrame

\* the calculator the branch of the view function calls
calculator(data, use_old_law) ==
    IF Get(data, "tax_type", JNull) = JStr(PIT)
    THEN calculate_pit(data, use_old_law)
    ELSE calculate_cit(data, use_old_law)

\* data = request.get_json(); tax_type = data.get("tax_type")
Accept(t) ==
    /\ threads[t].pc = "idle"
    /\ \E body \in ThreadBodies :
          threads' = [threads EXCEPT ![t] = [IdleThread EXCEPT !.pc = "old",
                                                              !.data = body]]
    /\ UNCHANGED <<globals, frame, engineVars, routeVars>>

\* old_result = calculate_xxx(data, use_old_law=True)
RunOld(t) ==
    /\ threads[t].pc = "old"
    /\ LET result == calculator(threads[t].data, TRUE)
       IN  threads' = [threads EXCEPT ![t] =
              IF result.exc # "none"
              THEN [@ EXCEPT !.pc = "done",
                             !.response = InternalServerError(result.exc)]
              ELSE [@ EXCEPT !.pc = "new", !.old_result = result]]
    /\ globals' = globals_after_call(globals)
    /\ UNCHANGED <<frame, engineVars, routeVars>>

\* new_result = calculate_xxx(data, use_old_law=False)
RunNew(t) ==
    /\ threads[t].pc = "new"
    /\ LET result == calculator(threads[t].data, FALSE)
       IN  threads' = [threads EXCEPT ![t] =
              IF result.exc # "none"
              THEN [@ EXCEPT !.pc = "done",
                             !.response = InternalServerError(result.exc)]
              ELSE [@ EXCEPT !.pc = "jsonify", !.new_result = result]]
    /\ globals' = globals_after_call(globals)
    /\ UNCHANGED <<frame, engineVars, routeVars>>

\* the differences and return jsonify({...})
Jsonify(t) ==
    /\ threads[t].pc = "jsonify"
    /\ LET o == threads[t].old_result.ret
           n == threads[t].new_result.ret
       IN  threads' = [threads EXCEPT ![t] =
              [@ EXCEPT !.pc = "done",
                        !.response =
                           IF Get(threads[t].data, "tax_type", JNull) = JStr(PIT)
                           THEN pit_response(o, n)
                           ELSE cit_response(o, n)]]
    /\ UNCHANGED <<globals, frame, engineVars, routeVars>>

\* the client has read the answer; the thread is free again
Close(t) ==
    /\ threads[t].pc = "done"
    /\ threads' = [threads EXCEPT ![t] = IdleThread]
    /\ UNCHANGED <<globals, frame, engineVars, routeVars>>

(***************************************************************************)
(* Specifications.                                                         *)
(***************************************************************************)
EngineIdle ==
    /\ amount = 0
    /\ brackets = PIT_BRACKETS_OLD
    /\ tax = 0
    /\ returned = FALSE
    /\ pos = 0
    /\ prev = 0

\* requests whose fields are numbers
Init == ServerInit /\ EngineIdle /\ RouteInit
Next == Post \/ Calculate \/ Receive
Spec == Init /\ [][Next]_vars

\* requests whose fields may carry something else than a number
NextInput == PostRaw \/ Calculate \/ Receive
SpecInput == Init /\ [][NextInput]_vars

\* requests whose results are followed in doubles
NextFloat == PostFloat \/ CalculateFloat \/ Receive
SpecFloat == Init /\ [][NextFloat]_vars

\* the bracket engine on its own
InitEngine == ServerInit /\ EngineInit /\ RouteInit
NextEngine == EngineReturn \/ EngineCall
SpecEngine == InitEngine /\ [][NextEngine]_vars

\* the bracket loop statement by statement; a call that has started keeps
\* running until it returns
InitLoop == ServerInit /\ LoopInit /\ RouteInit
NextLoop == LoopStep \/ LoopCall
SpecLoop == InitLoop /\ [][NextLoop]_vars /\ WF_vars(LoopStep)

\* requests handled at the same time, their statements interleaved
NextThreads ==
    \E t \in Threads :
        Accept(t) \/ RunOld(t) \/ RunNew(t) \/ Jsonify(t) \/ Close(t)
SpecThreads == Init /\ [][NextThreads]_vars

(***************************************************************************)
(* Properties.                                                             *)
(***************************************************************************)
Answered == response # NoResponse
Succeeded == response.status = 200
IsPIT == request.tax_type = JStr(PIT)
IsCIT == request.tax_type = JStr(CIT)

\* the number a field of the request in flight stands for
Input(key) == FloatField(request, key).val

\* new net minus old net, from the two results of the answer
NetDifference ==
    IF IsPIT THEN response.new.net_income - response.old.net_income
    ELSE response.new.net_profit - response.old.net_profit

\* C1: for a PIT or CIT request, the recommendation is "Better under NEW
\* law" exactly when new net minus old net is strictly positive, and
\* "Better under OLD law" otherwise, a difference of 0 included.
C1_RecommendationStrict ==
    (Answered /\ Succeeded /\ (IsPIT \/ IsCIT)) =>
        /\ NetDifference > 0 =>
              response.comparison.recommendation = "Better under NEW law"
        /\ NetDifference <= 0 =>
              response.comparison.recommendation = "Better under OLD law"

C1_Witness ==
    /\ Answered /\ Succeeded /\ IsCIT
    /\ Input("profit") > 0
    /\ NetDifference = 0
    /\ response.comparison.recommendation = "Better under OLD law"

\* C2: a request whose tax type is neither PIT nor CIT, or is missing, ends
\* in an error the caller sees, and no old/new/comparison result is made.
C2_UnknownTaxTypeRejected ==
    (Answered /\ ~IsPIT /\ ~IsCIT) =>
        /\ response.status # 200
        /\ DOMAIN response \cap {"old", "new", "comparison"} = {}

\* C3: in both PIT results the taxable income is
\* max(0, gross - relief - (pension + NHF + life insurance)), the deductions
\* uncapped, and so it is never negative.
C3_TaxableIncomeFloored ==
    (Answered /\ Succeeded /\ IsPIT) =>
        \A r \in {response.old, response.new} :
            LET deductions == Input("pension") + Input("nhf")
                                + Input("life_insurance")
                rest == r.gross_income - r.cra - deductions
            IN  /\ r.taxable_income = IF rest > 0 THEN rest ELSE 0
                /\ r.taxable_income >= 0

C3_Witness ==
    /\ Answered /\ Succeeded /\ IsPIT
    /\ Input("pension") + Input("nhf") + Input("life_insurance")
          > response.old.gross_income
    /\ response.old.gross_income > 0
    /\ response.old.taxable_income = 0
    /\ response.new.taxable_income = 0

\* C4: the housing allowance of the NEW result is min(raw, 500000), never
\* above 500,000; that of the OLD result is the raw input; both results
\* report the same raw housing value.
C4_HousingCap ==
    (Answered /\ Succeeded /\ IsPIT) =>
        LET raw == Input("housing_allowance")
        IN  /\ response.new.housing_allowance_capped
                  = IF raw <= 500000 THEN raw ELSE 500000
            /\ response.new.housing_allowance_capped <= 500000
            /\ response.old.housing_allowance_capped = raw
            /\ response.old.housing_raw = raw
            /\ response.new.housing_raw = raw

C4_Witness ==
    /\ Answered /\ Succeeded /\ IsPIT
    /\ Input("housing_allowance") = 600000
    /\ response.new.housing_allowance_capped = 500000
    /\ response.old.housing_allowance_capped = 600000

\* C5: for each bracket table the progressive tax does not decrease with
\* the amount: the tax on any amount a with 0 <= a <= b is at most the tax
\* returned for b.
C5_ProgressiveTaxMonotone ==
    returned =>
        \A a \in Amounts :
            a <= amount => calculate_progressive_tax(a, brackets) <= tax

C5_Witness ==
    /\ returned
    /\ brackets = PIT_BRACKETS_OLD
    /\ amount = 400000
    /\ tax = 32000

\* C6: calculate_progressive_tax returns 0 for amount 0 with either table,
\* the OLD table whose first rate is not zero included.
C6_ZeroAmountZeroTax ==
    (returned /\ amount = 0) => tax = 0

C6_Witness ==
    /\ returned
    /\ amount = 0
    /\ brackets = PIT_BRACKETS_OLD
    /\ brackets[1].rate # 0
    /\ tax = 0

\* C7: the CIT tier is a function of the turnover with inclusive upper
\* bounds: OLD: <= 25,000,000 Small 0%, <= 100,000,000 Medium 20%, else
\* Large 30%; NEW: <= 50,000,000 Small 0%, <= 150,000,000 Medium 18%, else
\* Large 25%.  A turnover equal to a bound falls in the lower tier.
C7_CitTiers ==
    (Answered /\ Succeeded /\ IsCIT) =>
        LET t == Input("turnover")
            o == response.old
            n == response.new
        IN  /\ t <= 25000000 =>
                  o.company_size = "Small Company" /\ o.cit_rate = 0
            /\ (t > 25000000 /\ t <= 100000000) =>
                  o.company_size = "Medium Company" /\ o.cit_rate = 20
            /\ t > 100000000 =>
                  o.company_size = "Large Company" /\ o.cit_rate = 30
            /\ t <= 50000000 =>
                  n.company_size = "Small Company" /\ n.cit_rate = 0
            /\ (t > 50000000 /\ t <= 150000000) =>
                  n.company_size = "Medium Company" /\ n.cit_rate = 18
            /\ t > 150000000 =>
                  n.company_size = "Large Company" /\ n.cit_rate = 25

C7_Witness ==
    /\ Answered /\ Succeeded /\ IsCIT
    /\ Input("turnover") = 100000000
    /\ response.old.company_size = "Medium Company"
    /\ response.old.cit_rate = 20
    /\ response.new.company_size = "Medium Company"

\* the PIT example: basic 1,000,000, housing 600,000, every other field 0
IsPitExample ==
    /\ IsPIT
    /\ Input("basic_salary") = 1000000
    /\ Input("housing_allowance") = 600000
    /\ \A key \in PITFields \ {"basic_salary", "housing_allowance"} :
          Input(key) = 0

\* C8: PIT under the NEW law with basic 1,000,000, housing 600,000 and
\* every other field 0 gives capped housing 500,000, gross 1,500,000,
\* relief 500,000, taxable income 1,000,000, annual PAYE 30,000, total tax
\* 30,000 and net income 1,470,000.
C8_PitExample ==
    (Answered /\ IsPitExample) =>
        /\ Succeeded
        /\ response.new.law = "NEW"
        /\ response.new.housing_allowance_capped = 500000
        /\ response.new.gross_income = 1500000
        /\ response.new.cra = 500000
        /\ response.new.taxable_income = 1000000
        /\ response.new.annual_paye = 30000
        /\ response.new.total_tax = 30000
        /\ response.new.net_income = 1470000

C8_Witness ==
    /\ Answered /\ Succeeded /\ IsPitExample
    /\ response.new.net_income = 1470000

\* the CIT example: turnover 80,000,000 and profit 10,000,000
IsCitExample ==
    /\ IsCIT
    /\ Input("turnover") = 80000000
    /\ Input("profit") = 10000000

\* C9: the CIT comparison on turnover 80,000,000 and profit 10,000,000
\* gives OLD: Medium, 20%, tax 2,000,000, net profit 8,000,000; NEW:
\* Medium, 18%, tax 1,800,000, net profit 8,200,000; net difference
\* 200,000 and the recommendation "Better under NEW law".
C9_CitExample ==
    (Answered /\ IsCitExample) =>
        /\ Succeeded
        /\ response.old.law = "OLD"
        /\ response.old.company_size = "Medium Company"
        /\ response.old.cit_rate = 20
        /\ response.old.cit_payable = 2000000
        /\ response.old.net_profit = 8000000
        /\ response.new.law = "NEW"
        /\ response.new.company_size = "Medium Company"
        /\ response.new.cit_rate = 18
        /\ response.new.cit_payable = 1800000
        /\ response.new.net_profit = 8200000
        /\ response.comparison.net_profit_difference = 200000
        /\ response.comparison.recommendation = "Better under NEW law"

C9_Witness ==
    /\ Answered /\ Succeeded /\ IsCitExample
    /\ response.comparison.net_profit_difference = 200000

\* a JSON value that is present and is not a number: null, a boolean, or a
\* string that is not the text of a number
NonNumeric(v) ==
    \/ v.kind \in {"null", "bool"}
    \/ /\ v.kind = "string"
       /\ ~AllDigits(v.str)
       /\ ~(Len(v.str) > 1 /\ Head(v.str) \in {"-", "+"}
             /\ AllDigits(Tail(v.str)))

\* the fields the calculator of the request's tax type reads
NamedFields == IF IsPIT THEN PITFields ELSE CITFields

\* C10: a PIT or CIT request in which a named field carries a non-numeric
\* value fails with an error the caller sees, the field is not silently
\* taken as 0, and no old/new/comparison result is made.
C10_NonNumericRejected ==
    (/\ Answered
     /\ IsPIT \/ IsCIT
     /\ \E key \in NamedFields : NonNumeric(request[key])) =>
        /\ response.status # 200
        /\ DOMAIN response \cap {"old", "new", "comparison"} = {}

\* the body with every missing numeric field present with the value 0
ZeroFilled(data) ==
    [key \in Keys |->
        IF key # "tax_type" /\ data[key].kind = "absent" THEN JNum(0)
        ELSE data[key]]

\* C11: every PIT and CIT input field is optional: a request that leaves
\* out any of the numeric fields gets exactly the answer of the request
\* that carries those fields with the value 0.
C11_MissingFieldIsZero ==
    Answered => response = calculate(ZeroFilled(request))

C11_Witness ==
    /\ Answered /\ Succeeded /\ IsPIT
    /\ request["pension"].kind = "absent"
    /\ request["housing_allowance"].kind = "absent"
    /\ request["basic_salary"].kind = "number"
    /\ response.old.gross_income = 11400000

\* the body with other capital gains and digital asset gains
WithGains(data, cg, da) ==
    [data EXCEPT !["capital_gains"] = JNum(cg), !["digital_assets"] = JNum(da)]

\* C12: PIT gross income is basic + effective housing + transport + other
\* allowances; capital gains and digital asset gains are not part of it:
\* changing only them leaves gross income, relief, taxable income, annual
\* PAYE and monthly PAYE as they are, in both regimes.
C12_GainsOutsideGross ==
    (Answered /\ Succeeded /\ IsPIT) =>
        \A r \in {response.old, response.new} :
            /\ r.gross_income
                  = Input("basic_salary") + r.housing_allowance_capped
                      + Input("transport_allowance")
                      + Input("other_allowances")
            /\ \A cg \in {k * 1000000 : k \in 0..(MaxGains + 1)},
                  da \in {k * 500000 : k \in 0..(MaxGains + 1)} :
                  LET alt == calculate_pit(WithGains(request, cg, da),
                                           r.law = "OLD").ret
                  IN  /\ alt.gross_income = r.gross_income
                      /\ alt.cra = r.cra
                      /\ alt.taxable_income = r.taxable_income
                      /\ alt.annual_paye = r.annual_paye
                      /\ alt.monthly_paye = r.monthly_paye

C12_Witness ==
    /\ Answered /\ Succeeded /\ IsPIT
    /\ Input("capital_gains") > 0
    /\ Input("digital_assets") > 0
    /\ response.old.annual_paye > 0
    /\ response.new.annual_paye > 0
    /\ response.new.gross_income
          = Input("basic_salary") + response.new.housing_allowance_capped
              + Input("transport_allowance") + Input("other_allowances")

\* C13: the relief (CRA) of the PIT result is 1% of gross income plus
\* 200,000 under OLD and 20% of gross income plus 200,000 under NEW, the
\* gross being the regime's own (with the capped housing under NEW).
C13_Relief ==
    (Answered /\ Succeeded /\ IsPIT) =>
        LET o == response.old
            n == response.new
            raw == Input("housing_allowance")
            rest == Input("basic_salary") + Input("transport_allowance")
                      + Input("other_allowances")
        IN  /\ o.gross_income = rest + raw
            /\ n.gross_income = rest + (IF raw <= 500000 THEN raw ELSE 500000)
            /\ 100 * (o.cra - 200000) = 1 * o.gross_income
            /\ 100 * (n.cra - 200000) = 20 * n.gross_income

C13_Witness ==
    /\ Answered /\ Succeeded /\ IsPIT
    /\ Input("housing_allowance") = 600000
    /\ response.old.gross_income = 12000000
    /\ response.old.cra = 320000
    /\ response.new.gross_income = 11900000
    /\ response.new.cra = 2580000

\* C14: capital gains tax is (capital gains + digital asset gains) times 5%
\* under OLD and times 10% under NEW, and total tax is annual PAYE plus
\* capital gains tax.
C14_CapitalGainsTax ==
    (Answered /\ Succeeded /\ IsPIT) =>
        LET gains == Input("capital_gains") + Input("digital_assets")
        IN  /\ 100 * response.old.capital_gains_tax = 5 * gains
            /\ 100 * response.new.capital_gains_tax = 10 * gains
            /\ \A r \in {response.old, response.new} :
                  r.total_tax = r.annual_paye + r.capital_gains_tax

C14_Witness ==
    /\ Answered /\ Succeeded /\ IsPIT
    /\ Input("capital_gains") = 1000000
    /\ Input("digital_assets") = 500000
    /\ response.old.capital_gains_tax = 75000
    /\ response.new.capital_gains_tax = 150000
    /\ response.new.annual_paye > 0

C17_Comparison ==
    (Answered /\ Succeeded /\ (IsPIT \/ IsCIT)) =>
        LET o == response.old
            n == response.new
            c == response.comparison
        IN  /\ o.law = "OLD"
            /\ n.law = "NEW"
            /\ IsPIT =>
                  /\ o = calculate_pit(request, TRUE).ret
                  /\ n = calculate_pit(request, FALSE).ret
                  /\ c.tax_difference = n.total_tax - o.total_tax
                  /\ c.net_income_difference = n.net_income - o.net_income
                  /\ c.monthly_take_home_difference.den = 12
                  /\ c.monthly_take_home_difference.num
                        = n.monthly_take_home.num - o.monthly_take_home.num
            /\ IsCIT =>
                  /\ o = calculate_cit(request, TRUE).ret
                  /\ n = calculate_cit(request, FALSE).ret
                  /\ c.tax_difference = n.cit_payable - o.cit_payable
                  /\ c.net_profit_difference = n.net_profit - o.net_profit
                  /\ c.monthly_profit_difference.den = 12
                  /\ c.monthly_profit_difference.num
                        = n.monthly_net_profit.num - o.monthly_net_profit.num

C17_Witness ==
    /\ Answered /\ Succeeded /\ IsPIT
    /\ response.comparison.tax_difference < 0
    /\ response.comparison.net_income_difference > 0
    /\ response.comparison.monthly_take_home_difference.num > 0
    /\ response.old.law = "OLD"
    /\ response.new.law = "NEW"

\* the lower bound of bracket i: the upper bound of the one before, or 0
LowerBound(table, i) == IF i = 1 THEN 0 ELSE table[i - 1].limit

\* max(0, min(a, upper bound) - lower bound): the part of a in bracket i
Slice(a, table, i) ==
    LET upper == table[i].limit
        top == IF upper = INF \/ a <= upper THEN a ELSE upper
        part == top - LowerBound(table, i)
    IN  IF part > 0 THEN part ELSE 0

\* the sum of the slices of brackets i .. Len(table)
RECURSIVE SumOfSlices(_, _, _)
SumOfSlices(a, table, i) ==
    IF i > Len(table) THEN 0
    ELSE Slice(a, table, i) + SumOfSlices(a, table, i + 1)

\* the sum of rate * slice over brackets i .. Len(table)
RECURSIVE SumOfSliceTaxes(_, _, _)
SumOfSliceTaxes(a, table, i) ==
    IF i > Len(table) THEN 0
    ELSE (Slice(a, table, i) * table[i].rate) \div 100
            + SumOfSliceTaxes(a, table, i + 1)

\* the last finite upper bound of a table
LastFiniteBound(table) == table[Len(table) - 1].limit

StoppedAtFirstBracketAbove ==
    /\ pos >= 1
    /\ \A j \in 1..(pos - 1) : LowerBound(brackets, j) < amount
    /\ \/ LowerBound(brackets, pos) >= amount
       \/ pos = Len(brackets) /\ LowerBound(brackets, pos) < amount

\* C19: every call of calculate_progressive_tax returns: the loop takes
\* each table entry at most once (at most 6 for either table) whatever the
\* amount, and it stops at the first bracket whose lower bound is at or
\* above the amount; the value returned is the one the calculators use.
C19_LoopTerminates ==
    /\ [](/\ pos <= Len(brackets)
          /\ Len(brackets) <= 6
          /\ returned =>
                /\ StoppedAtFirstBracketAbove
                /\ tax = calculate_progressive_tax(amount, brackets))
    /\ (~returned) ~> returned

C19_Witness ==
    /\ returned
    /\ brackets = PIT_BRACKETS_NEW
    /\ amount = 800000
    /\ pos = 2
    /\ tax = 0

\* what thread t holds is what its own data gives when evaluated on its own
ThreadResultsOwn(t) ==
    LET th == threads[t]
    IN  /\ th.pc \in {"new", "jsonify"} =>
              th.old_result = calculator(th.data, TRUE)
        /\ th.pc = "jsonify" =>
              th.new_result = calculator(th.data, FALSE)
        /\ th.pc = "done" => th.response = calculate(th.data)

\* C18: no calculation changes the bracket tables, the CGT rates, the
\* housing cap or the data of a request, so with requests interleaved in
\* any way the OLD result, the NEW result and the response of every request
\* are those of its own data evaluated alone on the globals of the import,
\* whichever evaluations of other requests ran before or in between.
C18_Stateless ==
    /\ [](/\ globals = ModuleGlobals
          /\ \A t \in Threads : ThreadResultsOwn(t))
    /\ [][\A t \in Threads :
             threads[t].pc \notin {"idle", "done"} =>
                 threads'[t].data = threads[t].data]_vars

\* a request is between its OLD and its NEW calculation while another one,
\* on other data, has run both
C18_Witness ==
    /\ threads[1].pc = "new"
    /\ threads[1].old_result = calculator(threads[1].data, TRUE)
    /\ threads[2].pc = "done"
    /\ threads[2].data # threads[1].data
    /\ threads[2].response.status = 200
    /\ threads[2].response = calculate(threads[2].data)

\* C21: calculate_progressive_tax treats the first bracket as tax-free:
\* with either table the part of the amount inside the first bracket adds
\* nothing, so the tax is the sum of rate * slice over brackets 2 and up.
C21_FirstBracketTaxFree ==
    returned => tax = SumOfSliceTaxes(amount, brackets, 2)

ValidBracketTable(table) ==
    /\ Len(table) = 6
    /\ \A i \in 1..(Len(table) - 1) :
          /\ table[i].limit # INF
          /\ table[i].limit > LowerBound(table, i)
    /\ table[Len(table)].limit = INF
    /\ \A i \in 1..Len(table) : table[i].rate \in 0..100

\* C23: in every reachable state both tables are valid bracket tables; the
\* OLD one starts at 300,000 with 7% and ends at 24%, the NEW one starts
\* with 0% up to 800,000 and then runs from 15% to 40%.
C23_TablesValid ==
    /\ ValidBracketTable(PIT_BRACKETS_OLD)
    /\ ValidBracketTable(PIT_BRACKETS_NEW)
    /\ PIT_BRACKETS_OLD[1] = [limit |-> 300000, rate |-> 7]
    /\ PIT_BRACKETS_OLD[6].rate = 24
    /\ PIT_BRACKETS_NEW[1] = [limit |-> 800000, rate |-> 0]
    /\ PIT_BRACKETS_NEW[2].rate = 15
    /\ PIT_BRACKETS_NEW[6].rate = 40
    /\ \A i \in 2..5 :
          PIT_BRACKETS_NEW[i].rate < PIT_BRACKETS_NEW[i + 1].rate

\* both calculators have run on the tables, the top brackets included
C23_Witness ==
    /\ Succeeded
    /\ IsPIT
    /\ response.old.taxable_income > 3200000
    /\ response.new.taxable_income > 22200000
    /\ ValidBracketTable(PIT_BRACKETS_OLD)
    /\ ValidBracketTable(PIT_BRACKETS_NEW)

C25_NewOnlyWhenTaxLower ==
    (Succeeded /\ IsPIT
        /\ response.comparison.recommendation = "Better under NEW law") =>
        response.new.total_tax < response.old.total_tax

\* NEW is recommended for an input whose housing allowance is over the cap
C25_Witness ==
    /\ Succeeded
    /\ IsPIT
    /\ response.new.housing_raw = 600000
    /\ response.comparison.recommendation = "Better under NEW law"
    /\ response.new.total_tax = 150000
    /\ response.old.total_tax = 386540

\* C27: for every input of the CIT calculation with profit >= 0, whatever
\* the turnover, the NEW tax payable is at most the OLD tax payable, and it
\* is strictly lower exactly when profit > 0 and turnover > 25,000,000.
C27_NewCitNotHigher ==
    (Succeeded /\ ~IsPIT /\ Input("profit") >= 0) =>
        /\ response.new.cit_payable <= response.old.cit_payable
        /\ (response.new.cit_payable < response.old.cit_payable)
              <=> (Input("profit") > 0 /\ Input("turnover") > 25000000)

C27_Witness ==
    /\ Succeeded
    /\ IsCIT
    /\ Input("turnover") = 25000001
    /\ Input("profit") = 10000000
    /\ response.old.cit_payable = 2000000
    /\ response.new.cit_payable = 0

\* C28: for every request that takes the CIT calculation the
\* recommendation is "Better under NEW law" exactly when profit > 0 and
\* turnover > 25,000,000, and "Better under OLD law" otherwise, companies
\* that owe nothing under both regimes included.
C28_CitRecommendation ==
    (Succeeded /\ ~IsPIT) =>
        response.comparison.recommendation =
            IF Input("profit") > 0 /\ Input("turnover") > 25000000
            THEN "Better under NEW law"
            ELSE "Better under OLD law"

\* a company at the OLD small-company limit owes nothing under both regimes
C28_Witness ==
    /\ Succeeded
    /\ IsCIT
    /\ Input("turnover") = 25000000
    /\ Input("profit") = 10000000
    /\ response.old.cit_payable = 0
    /\ response.new.cit_payable = 0
    /\ response.comparison.recommendation = "Better under OLD law"

\* the figures of one PIT result are within their bounds
PitResultInBounds(r) ==
    /\ r.annual_paye >= 0
    /\ r.capital_gains_tax >= 0
    /\ r.total_tax >= 0
    /\ r.total_tax <= r.gross_income + Input("capital_gains")
                         + Input("digital_assets")
    /\ r.net_income >= 0
    /\ r.monthly_take_home.num >= 0 /\ r.monthly_take_home.den > 0

\* C29: for every PIT input whose fields are all non-negative, in both
\* regimes annual PAYE, capital-gains tax and total tax are not negative,
\* the total tax is at most gross income + capital gains + digital-asset
\* gains, and net income and monthly take-home are not negative.
C29_PitFiguresNonNegative ==
    (Succeeded /\ IsPIT /\ \A key \in PITFields : Input(key) >= 0) =>
        /\ PitResultInBounds(response.old)
        /\ PitResultInBounds(response.new)

\* an income in the top bracket of both tables, with gains
C29_Witness ==
    /\ Succeeded
    /\ IsPIT
    /\ response.new.taxable_income > 22200000
    /\ response.old.taxable_income > 3200000
    /\ response.new.capital_gains_tax > 0
    /\ response.new.total_tax > response.old.total_tax
    /\ response.new.net_income > 0
    /\ \A key \in PITFields : Input(key) >= 0

ExactNeg(x) == IF Len(x.mant) = 0 THEN x ELSE [x EXCEPT !.neg = ~x.neg]
ExactSum(x, y) == FloatSumExact(x, y)
ExactTimes12(x) == [x EXCEPT !.mant = NatMulLimb(@, 12)]
ExactEq(x, y) == Len(ExactSum(x, ExactNeg(y)).mant) = 0
ExactAbs(x) == [x EXCEPT !.neg = FALSE]

\* |x - y| <= 2^-40 * scale
ExactClose(x, y, scale) ==
    LET d == ExactSum(x, ExactNeg(y))
    IN  \/ Len(d.mant) = 0
        \/ FloatCmp([neg |-> FALSE, mant |-> d.mant, exp |-> d.exp + 40],
                    scale) <= 0

\* the differences the answer reports and the figures they come from
NetDiff ==
    IF IsPIT THEN response.comparison.net_income_difference
    ELSE response.comparison.net_profit_difference
TaxDiff == response.comparison.tax_difference
MonthlyDiff ==
    IF IsPIT THEN response.comparison.monthly_take_home_difference
    ELSE response.comparison.monthly_profit_difference
NetOf(r) == IF IsPIT THEN r.net_income ELSE r.net_profit
TaxOf(r) == IF IsPIT THEN r.total_tax ELSE r.cit_payable

\* the part of the raw housing allowance above 500,000 (PIT), 0 for CIT
HousingExcess ==
    IF IsPIT
    THEN LET raw == Input("housing_allowance")
         IN  FloatOfInt(raw - (IF raw <= 500000 THEN raw ELSE 500000))
    ELSE FloatZero

\* -(tax difference) - (raw housing - min(raw housing, 500000))
MinusTaxDiffMinusExcess ==
    ExactSum(ExactNeg(TaxDiff), ExactNeg(HousingExcess))

\* |net| + |tax| of both results
FiguresScale ==
    ExactSum(ExactSum(ExactAbs(NetOf(response.old)),
                      ExactAbs(NetOf(response.new))),
             ExactSum(ExactAbs(TaxOf(response.old)),
                      ExactAbs(TaxOf(response.new))))

\* C26 as claimed: for every input, CIT: net difference = -(tax
\* difference); PIT: net difference = -(tax difference) - (raw housing -
\* min(raw housing, 500000)); in both cases 12 * monthly difference = net
\* difference.
C26_DifferencesTied ==
    Succeeded =>
        /\ ExactEq(NetDiff, MinusTaxDiffMinusExcess)
        /\ ExactEq(ExactTimes12(MonthlyDiff), NetDiff)

\* C26, amended: the same relations hold up to the rounding of the doubles
\* the results are computed in: the two sides of each differ by at most
\* 2^-40 times the sum of the magnitudes of the two net figures and the two
\* tax figures.
C26_DifferencesTiedUpToRounding ==
    Succeeded =>
        /\ ExactClose(NetDiff, MinusTaxDiffMinusExcess, FiguresScale)
        /\ ExactClose(ExactTimes12(MonthlyDiff), NetDiff, FiguresScale)

\* a medium company for which 12 * monthly difference is not the net
\* difference of 200,000, though within rounding of it
C26_Witness ==
    /\ Succeeded
    /\ IsCIT
    /\ Input("turnover") = 80000000
    /\ Input("profit") = 10000000
    /\ NetDiff = FloatOfInt(200000)
    /\ ~ExactEq(ExactTimes12(MonthlyDiff), NetDiff)
    /\ ExactClose(ExactTimes12(MonthlyDiff), NetDiff, FiguresScale)

====
